---- MODULE Spec2Model ----
(***************************************************************************)
(* State-machine model of the tournament engine of src/tournament.py:      *)
(* Team / Match / Tournament objects, the round-robin generator            *)
(* (generate_round_robin_matches, rotate_teams), the scheduler             *)
(* (generate_schedule) and result entry (Match.play_match).                *)
(*                                                                         *)
(* Conventions                                                             *)
(*  - A Team object is named by the order in which the caller adds it:     *)
(*    team k is the k-th team handed to add_team (roster == <<1..n>>).     *)
(*  - Rankings are kept times 2 (ranking2 = player1.ranking +              *)
(*    player2.ranking == 2 * average_ranking) and scores / points times    *)
(*    20, so that 1.0 is 20, 0.5 is 10 and 1 + 0.1 * d is 20 + 2*d.        *)
(*  - A datetime is a number of hours; timedelta(hours=1) is 1.            *)
(*  - Match objects live in `heap` (object id -> fields); `matches` and    *)
(*    the schedule's slots hold object ids (references).                   *)
(*  - `call` is the last engine call with its arguments and `result` its   *)
(*    outcome: "ok", or the name of the exception that left the call.      *)
(***************************************************************************)
EXTENDS Integers, Sequences, FiniteSets, TLC

VARIABLES
    teams,            \* Tournament.teams: the roster, a sequence of team ids
    num_courts,       \* Tournament.num_courts
    ranking2,         \* Team.ranking (== average_ranking), times 2, per team
    points,           \* Team.points, times 20, per team
    matches_played,   \* Team.matches_played, per team
    matches_won,      \* Team.matches_won, per team
    heap,             \* the Match objects created so far: id -> fields
    matches,          \* Tournament.matches: sequence of Match ids
    schedule,         \* Tournament.schedule: insertion-ordered dict time -> slot
    start_time,       \* Tournament.start_time
    end_time,         \* Tournament.end_time
    matches_to_schedule, \* what generate_round_robin_matches last returned
    call,             \* the last call: [name, match, team, time]
    result,           \* its outcome
    generations,      \* number of generate_schedule calls made
    plays,            \* number of play_match calls made
    history,          \* per play_match call made: its arguments and the
                      \* teams' counters as they were before it
    threads,          \* per thread that calls play_match: where it is in the
                      \* body, its arguments and the value it has loaded
    overlapped        \* a play_match call began while another was under way

vars == <<teams, num_courts, ranking2, points, matches_played, matches_won,
          heap, matches, schedule, start_time, end_time, matches_to_schedule,
          call, result, generations, plays, history, threads, overlapped>>

----------------------------------------------------------------------------
(* Bounds of the model *)

\* largest roster of the scheduling specification
MaxTeams == 6
\* largest roster of the result-entry specification
MaxPlayTeams == 4
\* largest number of courts
MaxCourts == 3
\* start times are 0 .. MaxStart
MaxStart == 1
\* play_match calls per run
MaxPlays == 2
\* generate_schedule calls per run where the call may be repeated
MaxGenerations == 2
\* stored results reloaded per run
MaxLoads == 1

(* Program constants *)

\* None, as a Team reference (Match.winner before the match is played)
NoTeam == 0
\* None, as a datetime (Tournament.start_time / end_time before scheduling)
NoTime == -1
\* Match.score before the match is played: 0
InitialScore == 0
\* the base score 1.0 of a win, times 20
BaseScore == 20
\* timedelta(hours=1)
SlotHours == 1
\* the bonus 0.5 of a dominant win, times 20
DominantBonus == 10
\* the difference of games from which a win is dominant
DominantGames == 4
\* a set is won with 6 games
GamesToWin == 6
\* the smallest accepted difference of games
MinGamesDiff == 2

TeamIds == 1 .. (MaxTeams + 1)
StartTimes == 0 .. MaxStart
\* Tournament.__init__ takes any int as num_courts; with 0 (as with a negative
\* number) no pairing gets a court
Courts == 0 .. MaxCourts

Min(a, b) == IF a <= b THEN a ELSE b

\* Team.__init__: average_ranking = (p1.ranking + p2.ranking) / 2, kept times 2.
\* Two rosters of players: the first gives team k the average ranking k (the
\* rankings 1.0, 2.0, 3.0, 4.0, ...), the second has equal and half-integer
\* averages in decreasing order.
TeamRanking2(p1, p2) == p1 + p2

RankingProfiles ==
    { [t \in TeamIds |-> TeamRanking2(t, t)],
      [t \in TeamIds |-> IF t = 1 THEN TeamRanking2(4, 4)
                         ELSE IF t <= 3 THEN TeamRanking2(1, 2)
                         ELSE TeamRanking2(1, 1)] }

\* the threads that call play_match at the same time
Threads == {"first", "second"}

\* a thread outside play_match
IdleThread == [pc |-> "idle", match |-> 0, team |-> NoTeam, loaded |-> 0]

NoCall == [name |-> "none", match |-> 0, team |-> NoTeam, time |-> NoTime]

----------------------------------------------------------------------------
(* Match.__init__ *)
NewMatch(team1, team2, court) ==
    [team1 |-> team1, team2 |-> team2, court |-> court,
     winner |-> NoTeam, score |-> InitialScore]

(* Tournament.__init__ and Team.__init__: empty roster, no matches, empty
   schedule, no times; every team's counters at 0. *)
Init ==
    /\ teams = <<>>
    /\ num_courts \in Courts
    /\ ranking2 \in RankingProfiles
    /\ points = [t \in TeamIds |-> 0]
    /\ matches_played = [t \in TeamIds |-> 0]
    /\ matches_won = [t \in TeamIds |-> 0]
    /\ heap = <<>>
    /\ matches = <<>>
    /\ schedule = <<>>
    /\ start_time = NoTime
    /\ end_time = NoTime
    /\ matches_to_schedule = <<>>
    /\ call = NoCall
    /\ result = "none"
    /\ generations = 0
    /\ plays = 0
    /\ history = <<>>
    /\ threads = [t \in Threads |-> IdleThread]
    /\ overlapped = FALSE

----------------------------------------------------------------------------
(* Tournament.add_team: self.teams.append(team).  There is no check of any
   kind; the call always succeeds.  `limit` bounds the roster. *)
add_team(limit) ==
    /\ Len(teams) < limit
    /\ teams' = Append(teams, Len(teams) + 1)
    /\ call' = [NoCall EXCEPT !.name = "add_team", !.team = Len(teams) + 1]
    /\ result' = "ok"
    /\ UNCHANGED <<num_courts, ranking2, points, matches_played, matches_won,
                   heap, matches, schedule, start_time, end_time,
                   matches_to_schedule, generations, plays, history,
                   threads, overlapped>>

----------------------------------------------------------------------------
(* Tournament.rotate_teams *)
rotate_teams(ts) ==
    IF Len(ts) <= 2 THEN ts
    ELSE <<ts[1]>> \o <<ts[Len(ts)]>> \o SubSeq(ts, 2, Len(ts) - 1)

\* Python's list[i] for i >= 0 and list[-(j)] for j >= 1, on a 1-based sequence
PyAt(s, i) == s[i + 1]
PyAtEnd(s, j) == s[Len(s) - j + 1]

\* a round that pairs each team with its neighbour in the list
RoundPairsOfNeighbours(rotating_teams, num_teams) ==
    [i \in 1 .. (num_teams \div 2) |->
        <<PyAt(rotating_teams, i - 1), PyAt(rotating_teams, i % Len(rotating_teams))>>]

\* the inner loop of generate_round_robin_matches: one round's pairings
RoundPairs(rotating_teams, num_teams) ==
    [i \in 1 .. (num_teams \div 2) |->
        <<PyAt(rotating_teams, i - 1), PyAtEnd(rotating_teams, i)>>]

\* the outer loop: the rounds still to emit, flattened into one list
RECURSIVE RoundsFrom(_, _, _)
RoundsFrom(rotating_teams, num_teams, rounds_left) ==
    IF rounds_left = 0 THEN <<>>
    ELSE RoundPairs(rotating_teams, num_teams)
         \o RoundsFrom(rotate_teams(rotating_teams), num_teams, rounds_left - 1)

\* generate_round_robin_matches without its parity test (lines 89-90 left out)
generate_round_robin_matches_unchecked(roster) ==
    LET num_teams == Len(roster) IN
    IF num_teams = 0 THEN [err |-> "IndexError", pairs |-> <<>>]
    ELSE [err |-> "ok",
          pairs |-> RoundsFrom(SubSeq(roster, 2, num_teams), num_teams,
                               num_teams - 1)]

(* Tournament.generate_round_robin_matches.  An odd roster raises ValueError;
   an empty roster passes the parity test and circle[0] raises IndexError;
   otherwise the list of pairings is returned. *)
generate_round_robin_matches(roster) ==
    LET num_teams == Len(roster) IN
    IF num_teams % 2 # 0 THEN [err |-> "ValueError", pairs |-> <<>>]
    ELSE IF num_teams = 0 THEN [err |-> "IndexError", pairs |-> <<>>]
    ELSE [err |-> "ok",
          pairs |-> RoundsFrom(SubSeq(roster, 2, num_teams), num_teams,
                               num_teams - 1)]

----------------------------------------------------------------------------
\* the list comprehension of generate_schedule: slices of matches_per_round
Chunks(ms, matches_per_round) ==
    [r \in 1 .. ((Len(ms) + matches_per_round - 1) \div matches_per_round) |->
        SubSeq(ms, (r - 1) * matches_per_round + 1,
               Min(r * matches_per_round, Len(ms)))]

\* random.shuffle: every ordering of the list is a possible outcome
Shuffles(s) ==
    LET n == Len(s)
        perms == { p \in [1 .. n -> 1 .. n] : \A i, j \in 1 .. n : p[i] = p[j] => i = j }
    IN  { [i \in 1 .. n |-> s[p[i]]] : p \in perms }

\* one shuffle outcome per round, for all rounds
RECURSIVE ShuffledRounds(_)
ShuffledRounds(rounds) ==
    IF rounds = <<>> THEN { <<>> }
    ELSE { <<h>> \o t : h \in Shuffles(Head(rounds)), t \in ShuffledRounds(Tail(rounds)) }

\* available_courts one court short: range(min(num_courts, len(round_matches)) - 1)
AvailableCourtsOneShort(courts, round_matches) == Min(courts, Len(round_matches)) - 1

\* available_courts = list(range(min(num_courts, len(round_matches))))
AvailableCourts(courts, round_matches) == Min(courts, Len(round_matches))

\* available_courts.pop(): the courts handed out from the end of the list
PoppedCourtFromEnd(available, c) == available - c

\* the court of the c-th available_courts.pop(0) on list(range(available))
PoppedCourt(available, c) == c - 1

\* dict[key] = value on an insertion-ordered dict
DictSet(d, key, value) ==
    IF \E i \in 1 .. Len(d) : d[i].time = key
    THEN [i \in 1 .. Len(d) |-> IF d[i].time = key THEN [d[i] EXCEPT !.slot = value] ELSE d[i]]
    ELSE Append(d, [time |-> key, slot |-> value])

(* the body of `for round_matches in rounds` of generate_schedule, for the
   rounds from the r-th on; acc carries heap, matches, schedule, current_time *)
RECURSIVE ScheduleRounds(_, _, _, _)
ScheduleRounds(shuffled, r, courts, acc) ==
    IF r > Len(shuffled) THEN acc
    ELSE
      LET round_matches == shuffled[r]
          k == AvailableCourts(courts, round_matches)
          base == Len(acc.heap)
          created == [c \in 1 .. k |->
                        NewMatch(round_matches[c][1], round_matches[c][2],
                                 PoppedCourt(k, c))]
          current_round == [c \in 1 .. k |-> base + c]
      IN  ScheduleRounds(shuffled, r + 1, courts,
            [heap |-> acc.heap \o created,
             matches |-> acc.matches \o current_round,
             schedule |-> DictSet(acc.schedule, acc.current_time, current_round),
             current_time |-> acc.current_time + SlotHours])

(* Tournament.generate_schedule(start_time).  start_time is assigned first;
   an exception of generate_round_robin_matches leaves the call right after.
   range(0, len, matches_per_round) raises ValueError for a step of 0, which
   needs a generator that returns for a roster of fewer than 2 teams. *)
generate_schedule(start) ==
    LET rr == generate_round_robin_matches(teams)
        matches_per_round == Len(teams) \div 2
        err == IF rr.err # "ok" THEN rr.err
               ELSE IF matches_per_round = 0 THEN "ValueError"
               ELSE "ok"
    IN
    /\ call' = [NoCall EXCEPT !.name = "generate_schedule", !.time = start]
    /\ generations' = generations + 1
    /\ start_time' = start
    /\ result' = err
    /\ IF err # "ok"
       THEN UNCHANGED <<heap, matches, schedule, end_time, matches_to_schedule>>
       ELSE \E shuffled \in ShuffledRounds(Chunks(rr.pairs, matches_per_round)) :
              LET out == ScheduleRounds(shuffled, 1, num_courts,
                            [heap |-> heap, matches |-> matches,
                             schedule |-> schedule, current_time |-> start])
              IN  /\ heap' = out.heap
                  /\ matches' = out.matches
                  /\ schedule' = out.schedule
                  /\ end_time' = out.current_time
                  /\ matches_to_schedule' = rr.pairs
    /\ UNCHANGED <<teams, num_courts, ranking2, points, matches_played,
                   matches_won, plays, history, threads, overlapped>>

----------------------------------------------------------------------------
\* the bookkeeping of a result entry: the call, and the counters before it
RecordedCall(name, m, winning_team) ==
    /\ call' = [NoCall EXCEPT !.name = name, !.match = m, !.team = winning_team]
    /\ result' = "ok"
    /\ plays' = plays + 1
    /\ history' = Append(history, [match |-> m, team |-> winning_team,
                                   points |-> points,
                                   matches_played |-> matches_played,
                                   matches_won |-> matches_won])
    /\ UNCHANGED <<teams, num_courts, ranking2, schedule, start_time,
                   end_time, matches_to_schedule, generations, threads,
                   overlapped>>

\* the same for an entry on a Match of the tournament: the flat list stays
Recorded(name, m, winning_team) ==
    /\ RecordedCall(name, m, winning_team)
    /\ UNCHANGED matches

\* play_match crediting the win to self.team1 instead of winning_team
play_match_body_credits_team1(m, winning_team) ==
    LET self == heap[m]
        played1 == [matches_played EXCEPT ![self.team1] = @ + 1]
    IN  [heap |-> [heap EXCEPT ![m] = [self EXCEPT !.winner = winning_team,
                                                   !.score = BaseScore]],
         matches_won |-> [matches_won EXCEPT ![self.team1] = @ + 1],
         points |-> [points EXCEPT ![self.team1] = @ + BaseScore],
         matches_played |-> [played1 EXCEPT ![self.team2] = @ + 1]]

\* play_match that counts a match only the first time it is played
play_match_body_once(m, winning_team) ==
    LET self == heap[m]
        played1 == [matches_played EXCEPT ![self.team1] = @ + 1]
        first == self.winner = NoTeam
    IN  [heap |-> [heap EXCEPT ![m] = [self EXCEPT !.winner = winning_team,
                                                   !.score = BaseScore]],
         matches_won |-> IF first THEN [matches_won EXCEPT ![winning_team] = @ + 1]
                         ELSE matches_won,
         points |-> IF first THEN [points EXCEPT ![winning_team] = @ + BaseScore]
                    ELSE points,
         matches_played |-> IF first THEN [played1 EXCEPT ![self.team2] = @ + 1]
                            ELSE matches_played]

\* play_match that takes a second call on a played match as its withdrawal
play_match_body_toggles(m, winning_team) ==
    LET self == heap[m]
        played1 == [matches_played EXCEPT ![self.team1] = @ + 1]
    IN  [heap |-> [heap EXCEPT ![m] = [self EXCEPT
                      !.winner = IF self.winner = NoTeam THEN winning_team ELSE NoTeam,
                      !.score = BaseScore]],
         matches_won |-> [matches_won EXCEPT ![winning_team] = @ + 1],
         points |-> [points EXCEPT ![winning_team] = @ + BaseScore],
         matches_played |-> [played1 EXCEPT ![self.team2] = @ + 1]]

\* play_match without `self.winner = winning_team`
play_match_body_no_winner(m, winning_team) ==
    LET self == heap[m]
        played1 == [matches_played EXCEPT ![self.team1] = @ + 1]
    IN  [heap |-> [heap EXCEPT ![m] = [self EXCEPT !.score = BaseScore]],
         matches_won |-> [matches_won EXCEPT ![winning_team] = @ + 1],
         points |-> [points EXCEPT ![winning_team] = @ + BaseScore],
         matches_played |-> [played1 EXCEPT ![self.team2] = @ + 1]]

(* The assignments of Match.play_match(winning_team) on Match object m of
   the objects h: the Match objects and the teams' counters after the call.
   No argument is checked.  The two matches_played increments are separate
   read-modify-writes, so a match of a team against itself counts twice. *)
play_match_on(h, m, winning_team) ==
    LET self == h[m]
        played1 == [matches_played EXCEPT ![self.team1] = @ + 1]
    IN  [heap |-> [h EXCEPT ![m] = [self EXCEPT !.winner = winning_team,
                                                !.score = BaseScore]],
         matches_won |-> [matches_won EXCEPT ![winning_team] = @ + 1],
         points |-> [points EXCEPT ![winning_team] = @ + BaseScore],
         matches_played |-> [played1 EXCEPT ![self.team2] = @ + 1]]

\* play_match on a Match object the tournament already holds
play_match_body(m, winning_team) == play_match_on(heap, m, winning_team)

(* Match.play_match(winning_team) as a call of its own (the console manager,
   the example script, any user of the engine). *)
play_match(m, winning_team) ==
    LET after == play_match_body(m, winning_team) IN
    /\ heap' = after.heap
    /\ matches_won' = after.matches_won
    /\ points' = after.points
    /\ matches_played' = after.matches_played
    /\ Recorded("play_match", m, winning_team)

(* The "Registrar Resultado" handler of input_results in the web application:
   match.play_match(winning_team), then match.score += 0.5 when the difference
   of games is 4 or more.  The team's points were already credited by
   play_match and are not adjusted.  winning_team is team1 or team2. *)
input_results(m, winning_team, games_diff) ==
    LET after == play_match_body(m, winning_team)
        bonus == IF games_diff >= DominantGames THEN DominantBonus ELSE 0
    IN
    /\ heap' = [after.heap EXCEPT ![m].score = @ + bonus]
    /\ matches_won' = after.matches_won
    /\ points' = after.points
    /\ matches_played' = after.matches_played
    /\ Recorded("input_results", m, winning_team)

(* Match.play_match run by a thread, one step per access to shared data.
   x.attr += v is not atomic: it loads x.attr, adds, and stores the sum, and
   another thread may run between the load and the store. *)

\* an addition that stores the loaded value back unchanged
InPlaceAddNothing(loaded, amount) == loaded

\* the sum that += stores
InPlaceAdd(loaded, amount) == loaded + amount

\* thread t enters play_match(winning_team) on Match object m
thread_call(t, m, winning_team) ==
    /\ threads[t].pc = "idle"
    /\ threads' = [threads EXCEPT ![t] = [pc |-> "winner", match |-> m,
                                          team |-> winning_team, loaded |-> 0]]
    /\ overlapped' = (overlapped
                        \/ \E u \in Threads \ {t} : threads[u].pc \notin {"idle", "done"})
    /\ call' = [NoCall EXCEPT !.name = "play_match", !.match = m, !.team = winning_team]
    /\ result' = "ok"
    /\ plays' = plays + 1
    /\ UNCHANGED <<teams, num_courts, ranking2, points, matches_played,
                   matches_won, heap, matches, schedule, start_time, end_time,
                   matches_to_schedule, generations, history>>

\* thread t takes its next step in play_match
thread_step(t) ==
    LET self == threads[t].match
        winning_team == threads[t].team
        loaded == threads[t].loaded
        Goto(pc) == threads' = [threads EXCEPT ![t].pc = pc]
        Load(value, pc) == threads' = [threads EXCEPT ![t].pc = pc, ![t].loaded = value]
    IN
    /\ threads[t].pc \notin {"idle", "done"}
    /\ CASE threads[t].pc = "winner" ->
              /\ heap' = [heap EXCEPT ![self].winner = winning_team]
              /\ Goto("score")
              /\ UNCHANGED <<matches_won, points, matches_played>>
         [] threads[t].pc = "score" ->
              /\ heap' = [heap EXCEPT ![self].score = BaseScore]
              /\ Goto("won_load")
              /\ UNCHANGED <<matches_won, points, matches_played>>
         [] threads[t].pc = "won_load" ->
              /\ Load(matches_won[winning_team], "won_store")
              /\ UNCHANGED <<heap, matches_won, points, matches_played>>
         [] threads[t].pc = "won_store" ->
              /\ matches_won' = [matches_won EXCEPT ![winning_team] = InPlaceAdd(loaded, 1)]
              /\ Goto("points_load")
              /\ UNCHANGED <<heap, points, matches_played>>
         [] threads[t].pc = "points_load" ->
              /\ Load(points[winning_team], "points_store")
              /\ UNCHANGED <<heap, matches_won, points, matches_played>>
         [] threads[t].pc = "points_store" ->
              /\ points' = [points EXCEPT ![winning_team] =
                                InPlaceAdd(loaded, heap[self].score)]
              /\ Goto("played1_load")
              /\ UNCHANGED <<heap, matches_won, matches_played>>
         [] threads[t].pc = "played1_load" ->
              /\ Load(matches_played[heap[self].team1], "played1_store")
              /\ UNCHANGED <<heap, matches_won, points, matches_played>>
         [] threads[t].pc = "played1_store" ->
              /\ matches_played' = [matches_played EXCEPT ![heap[self].team1] =
                                        InPlaceAdd(loaded, 1)]
              /\ Goto("played2_load")
              /\ UNCHANGED <<heap, matches_won, points>>
         [] threads[t].pc = "played2_load" ->
              /\ Load(matches_played[heap[self].team2], "played2_store")
              /\ UNCHANGED <<heap, matches_won, points, matches_played>>
         [] threads[t].pc = "played2_store" ->
              /\ matches_played' = [matches_played EXCEPT ![heap[self].team2] =
                                        InPlaceAdd(loaded, 1)]
              /\ Goto("done")
              /\ UNCHANGED <<heap, matches_won, points>>
    /\ UNCHANGED <<teams, num_courts, ranking2, matches, schedule, start_time,
                   end_time, matches_to_schedule, call, result, generations,
                   plays, history, overlapped>>

(* Match.calculate_score, times 20: 1 + 0.1 * d becomes 20 + 2 * d, and d is
   half the difference of the doubled rankings.  Nothing in the engine calls it. *)
calculate_score(self) ==
    LET higher_ranked == IF self.winner = self.team1 THEN self.team2 ELSE self.team1
        lower_ranked == IF self.winner = self.team1 THEN self.team1 ELSE self.team2
    IN  IF ranking2[lower_ranked] < ranking2[higher_ranked]
        THEN BaseScore + (ranking2[higher_ranked] - ranking2[lower_ranked])
        ELSE BaseScore

(* The body of the loop "Cargar partidos jugados" of
   load_existing_tournament in the web application, which runs after
   generate_schedule: for a stored result a new Match object is created,
   played, and appended to tournament.matches; the schedule is not touched.
   winner is team1 when winner_id is team1's id, else team2. *)
load_played_match(team1, team2, court, winner_is_team1) ==
    LET m == Len(heap) + 1
        winner == IF winner_is_team1 THEN team1 ELSE team2
        after == play_match_on(Append(heap, NewMatch(team1, team2, court)), m, winner)
    IN
    /\ heap' = after.heap
    /\ matches_won' = after.matches_won
    /\ points' = after.points
    /\ matches_played' = after.matches_played
    /\ matches' = Append(matches, m)
    /\ RecordedCall("load_existing_tournament", m, winner)

----------------------------------------------------------------------------
(* The queries get_standings and get_prizes.  They change nothing, so they
   are operators over the state: what a call in that state gives. *)

(* matches_won / matches_played if matches_played > 0 else 0, as the fraction
   num / den with den > 0 *)
WinRate(team) ==
    IF matches_played[team] > 0
    THEN [num |-> matches_won[team], den |-> matches_played[team]]
    ELSE [num |-> 0, den |-> 1]

\* a < b for two such fractions
RateLess(a, b) == a.num * b.den < b.num * a.den

\* the list "data" of get_standings: one dict per team, in roster order
standings_data ==
    [i \in 1 .. Len(teams) |->
        [Team |-> teams[i],
         Points |-> points[teams[i]],
         Matches_Played |-> matches_played[teams[i]],
         Matches_Won |-> matches_won[teams[i]],
         Win_Rate |-> WinRate(teams[i])]]

(* sort_values('Points', ascending = False) with the default sorting
   algorithm, which is not stable: every order of the rows with the points
   not increasing is a possible outcome. *)
RECURSIVE SortedByPoints(_)
SortedByPoints(rows) ==
    IF rows = {} THEN { <<>> }
    ELSE UNION { { <<r>> \o rest : rest \in SortedByPoints(rows \ {r}) } :
                 r \in { x \in rows : \A y \in rows : y.Points <= x.Points } }

\* the frame of an empty list has no column 'Points': sorting raises KeyError
get_standings_err == IF standings_data = <<>> THEN "KeyError" ELSE "ok"

\* get_standings(): the possible returned frames
get_standings ==
    [err |-> get_standings_err,
     frames |-> IF get_standings_err = "ok"
                THEN SortedByPoints({ standings_data[i] : i \in 1 .. Len(teams) })
                ELSE {}]

(* min(seq, key = ranking) of Python: the first element is the best so far,
   and a later one replaces it only when its key is strictly lower. *)
min_by_ranking(seq) ==
    LET best[i \in 1 .. Len(seq)] ==
            IF i = 1 THEN seq[1]
            ELSE LET so_far == best[i - 1]
                 IN  IF ranking2[seq[i]] < ranking2[so_far] THEN seq[i] ELSE so_far
    IN  best[Len(seq)]

\* a max that lets a later element replace the best so far on an equal key
max_by_win_rate_last(seq) ==
    LET best[i \in 1 .. Len(seq)] ==
            IF i = 1 THEN seq[1]
            ELSE LET so_far == best[i - 1]
                 IN  IF ~ RateLess(WinRate(seq[i]), WinRate(so_far))
                     THEN seq[i] ELSE so_far
    IN  best[Len(seq)]

(* max(seq, key = win rate) of Python: a later element replaces the best so
   far only when its key is strictly higher. *)
max_by_win_rate(seq) ==
    LET best[i \in 1 .. Len(seq)] ==
            IF i = 1 THEN seq[1]
            ELSE LET so_far == best[i - 1]
                 IN  IF RateLess(WinRate(so_far), WinRate(seq[i]))
                     THEN seq[i] ELSE so_far
    IN  best[Len(seq)]

NoPrizes ==
    [Champion |-> NoTeam, Runner_up |-> NoTeam, Third_Place |-> NoTeam,
     Most_Improved |-> NoTeam, Best_Underdog |-> NoTeam]

\* get_prizes with the podium read from the first frame of the standings
get_prizes_by_standings ==
    IF get_standings_err # "ok" THEN [err |-> get_standings_err, prizes |-> NoPrizes]
    ELSE IF Len(teams) < 3 THEN [err |-> "IndexError", prizes |-> NoPrizes]
    ELSE LET standings == CHOOSE f \in get_standings.frames : TRUE
         IN  [err |-> "ok",
              prizes |-> [Champion |-> standings[1].Team,
                          Runner_up |-> standings[2].Team,
                          Third_Place |-> standings[3].Team,
                          Most_Improved |-> min_by_ranking(teams),
                          Best_Underdog |-> max_by_win_rate(teams)]]

(* get_prizes(): get_standings is called first and its result is not used;
   teams[1] and teams[2] of Python raise IndexError on a shorter roster. *)
get_prizes ==
    IF get_standings_err # "ok" THEN [err |-> get_standings_err, prizes |-> NoPrizes]
    ELSE IF Len(teams) < 3 THEN [err |-> "IndexError", prizes |-> NoPrizes]
    ELSE [err |-> "ok",
          prizes |-> [Champion |-> teams[1],
                      Runner_up |-> teams[2],
                      Third_Place |-> teams[3],
                      Most_Improved |-> min_by_ranking(teams),
                      Best_Underdog |-> max_by_win_rate(teams)]]

----------------------------------------------------------------------------
(* The actions of the specifications *)

\* the caller adds a team (scheduling specification)
AddTeam == add_team(MaxTeams)

\* the one generate_schedule call of a tournament's life (the callers build a
\* Tournament, add the teams and call generate_schedule once)
GenerateSchedule ==
    /\ generations = 0
    /\ \E start \in StartTimes : generate_schedule(start)

\* the caller adds a team (result-entry specification)
AddTeamSmall == add_team(MaxPlayTeams)

\* the caller records a result: any Match object, any roster team as winner
PlayMatch ==
    /\ plays < MaxPlays
    /\ \E m \in 1 .. Len(heap) : \E w \in 1 .. Len(teams) : play_match(m, w)

\* the web application records a result of a scheduled match: the winner is
\* one of its two teams, the games are 6 to at most 4
InputResults ==
    /\ plays < MaxPlays
    /\ \E r \in 1 .. Len(schedule) : \E k \in 1 .. Len(schedule[r].slot) :
         LET m == schedule[r].slot[k] IN
         \E w \in {heap[m].team1, heap[m].team2} :
         \E games_diff \in MinGamesDiff .. GamesToWin :
             input_results(m, w, games_diff)

\* any generate_schedule call on the tournament, also a repeated one
GenerateScheduleAgain ==
    /\ generations < MaxGenerations
    /\ \E start \in StartTimes : generate_schedule(start)

\* the web application reloads a stored result of two roster teams, once the
\* schedule is there
LoadPlayedMatch ==
    /\ plays < MaxLoads
    /\ schedule # <<>>
    /\ \E team1, team2 \in 1 .. Len(teams) : \E court \in 0 .. (num_courts - 1) :
         \E winner_is_team1 \in BOOLEAN :
             load_played_match(team1, team2, court, winner_is_team1)

\* a thread calls play_match on a Match of the tournament for one of its teams
ThreadCall ==
    \E t \in Threads : \E m \in 1 .. Len(heap) :
        \E winning_team \in {heap[m].team1, heap[m].team2} :
            thread_call(t, m, winning_team)

\* the scheduler lets one of the threads run
ThreadStep == \E t \in Threads : thread_step(t)

NextSched == AddTeam \/ GenerateSchedule

NextThreads == AddTeamSmall \/ GenerateSchedule \/ ThreadCall \/ ThreadStep

NextReload == AddTeamSmall \/ GenerateScheduleAgain \/ LoadPlayedMatch

NextApp == AddTeamSmall \/ GenerateSchedule \/ PlayMatch \/ InputResults

Next == AddTeamSmall \/ GenerateSchedule \/ PlayMatch

\* roster building and one scheduling call, rosters up to MaxTeams
SpecSched == Init /\ [][NextSched]_vars

\* the whole engine, rosters up to MaxPlayTeams
Spec == Init /\ [][Next]_vars

\* repeated scheduling and the reloading of stored results
SpecReload == Init /\ [][NextReload]_vars

\* two threads entering results without synchronisation, on a single court
InitThreads == Init /\ num_courts = 1
SpecThreads == InitThreads /\ [][NextThreads]_vars

\* a tournament on a single court
InitApp == Init /\ num_courts = 1

\* the engine driven by its users and by the web application's result form,
\* on a single court
SpecApp == InitApp /\ [][NextApp]_vars

----------------------------------------------------------------------------
(* Vocabulary of the properties *)

RosterSize == Len(teams)
EvenRoster == RosterSize % 2 = 0 /\ RosterSize >= 2

\* the last call was generate_schedule / it returned normally
Generated == call.name = "generate_schedule"
Scheduled == Generated /\ result = "ok"

\* the rounds of the pairings the generator returned
Rounds == Chunks(matches_to_schedule, RosterSize \div 2)

\* a pairing / a Match as an unordered pair of teams
Unordered(pair) == {pair[1], pair[2]}
TeamsOf(m) == <<heap[m].team1, heap[m].team2>>

\* how often the unordered pair {a, b} occurs in a list of pairings
Occurrences(pairs, a, b) ==
    Cardinality({ i \in 1 .. Len(pairs) : Unordered(pairs[i]) = {a, b} })

\* the unordered pairs of one round
RoundSet(round) == { Unordered(round[i]) : i \in 1 .. Len(round) }

\* the pairings of round r that got no Match in slot r
Dropped(r) ==
    { i \in 1 .. Len(Rounds[r]) :
        \A k \in 1 .. Len(schedule[r].slot) : TeamsOf(schedule[r].slot[k]) # Rounds[r][i] }

----------------------------------------------------------------------------
(* C1: for every even roster of N >= 2 teams, the pairings returned by
   generate_round_robin_matches contain every unordered pair of two distinct
   roster teams exactly once.  The code pairs rotating_teams[i] with
   rotating_teams[-(i+1)] over the N-1 teams other than teams[0], so teams[0]
   is in no pairing and the middle team of the list is paired with itself. *)
C1_EveryPairExactlyOnce ==
    (Scheduled /\ EvenRoster) =>
        \A a, b \in 1 .. RosterSize :
            a < b => Occurrences(matches_to_schedule, a, b) = 1

(* C2: for the roster [T1,T2,T3,T4] the generator gives 3 rounds of 2 pairings,
   round 1 being {T1,T4},{T2,T3} and round 2 being {T1,T3},{T2,T4}. *)
C2_FourTeamFixture ==
    (Scheduled /\ teams = <<1, 2, 3, 4>>) =>
        /\ Len(Rounds) = 3
        /\ \A r \in 1 .. 3 : Len(Rounds[r]) = 2
        /\ RoundSet(Rounds[1]) = {{1, 4}, {2, 3}}
        /\ RoundSet(Rounds[2]) = {{1, 3}, {2, 4}}

(* C3: for every even N >= 2 and num_courts >= N/2, one generate_schedule call
   on a fresh tournament succeeds, creates exactly N(N-1)/2 Match objects, all
   of them in the flat list, and the schedule has exactly N-1 time slots of
   exactly N/2 matches each. *)
C3_FullCourtsCounts ==
    (Generated /\ generations = 1 /\ EvenRoster /\ 2 * num_courts >= RosterSize) =>
        /\ result = "ok"
        /\ 2 * Len(heap) = RosterSize * (RosterSize - 1)
        /\ matches = [i \in 1 .. Len(heap) |-> i]
        /\ Len(schedule) = RosterSize - 1
        /\ \A r \in 1 .. Len(schedule) : 2 * Len(schedule[r].slot) = RosterSize

\* a roster of 6 teams scheduled on 3 or more courts: 15 matches
C3_Witness ==
    /\ Scheduled /\ generations = 1
    /\ RosterSize = 6 /\ num_courts >= 3
    /\ Len(heap) = 15

\* the counting half of C4: num_courts matches in each of the N-1 slots
C4_CountsPerSlot ==
    (Scheduled /\ generations = 1 /\ EvenRoster /\ 2 * num_courts < RosterSize) =>
        /\ Len(schedule) = RosterSize - 1
        /\ \A r \in 1 .. Len(schedule) : Len(schedule[r].slot) = num_courts
        /\ Len(matches) = (RosterSize - 1) * num_courts

(* C4: for every even N >= 2 and 1 <= num_courts < N/2, one generate_schedule
   call on a fresh tournament puts exactly num_courts matches in each of the
   N-1 slots, the flat list has (N-1) * num_courts matches, and the pairings of
   a round that got no court appear in no Match at all. *)
C4_DroppedPairingsInNoMatch ==
    (Scheduled /\ generations = 1 /\ EvenRoster /\ 2 * num_courts < RosterSize) =>
        /\ C4_CountsPerSlot
        /\ \A r \in 1 .. Len(Rounds) : \A i \in Dropped(r) :
               \A m \in 1 .. Len(heap) : TeamsOf(m) # Rounds[r][i]

(* C5: on an odd roster generate_round_robin_matches raises ValueError, and so
   does generate_schedule, which creates no Match and no schedule entry. *)
C5_OddRosterFails ==
    [][ (call'.name = "generate_schedule" /\ RosterSize % 2 = 1) =>
            /\ generate_round_robin_matches(teams).err = "ValueError"
            /\ result' = "ValueError"
            /\ heap' = heap
            /\ matches' = matches
            /\ schedule' = schedule ]_vars

\* generate_schedule has just failed on a roster of 3 teams
C5_Witness ==
    Generated /\ RosterSize = 3 /\ result = "ValueError" /\ heap = <<>>

(* C6: on an empty roster generate_schedule fails with the validation error of
   the odd roster (ValueError), not with another failure. *)
C6_EmptyRosterValueError ==
    (Generated /\ RosterSize = 0) => result = "ValueError"

(* C7: a generate_schedule call that fails leaves start_time, end_time,
   matches and schedule as they were before the call. *)
C7_FailureChangesNothing ==
    [][ (call'.name = "generate_schedule" /\ result' # "ok") =>
            /\ start_time' = start_time
            /\ end_time' = end_time
            /\ matches' = matches
            /\ schedule' = schedule ]_vars

(* C8: add_team after generate_schedule has run on the tournament fails with a
   validation error and leaves the roster unchanged. *)
C8_AddTeamAfterScheduleFails ==
    [][ (call'.name = "add_team" /\ schedule # <<>>) =>
            /\ result' = "ValueError"
            /\ teams' = teams ]_vars

\* the winner handed to the play_match call that just returned is one of the
\* match's two teams
WinnerIsParticipant(c) ==
    c.team \in {heap[c.match].team1, heap[c.match].team2}

(* C9: play_match with a winning team that is neither team1 nor team2 of the
   match fails with an invalid-argument error and leaves the match's winner and
   score and every team's points, matches_won and matches_played unchanged. *)
C9_NonParticipantRejected ==
    [][ (call'.name = "play_match" /\ ~WinnerIsParticipant(call')) =>
            /\ result' = "InvalidArgument"
            /\ heap' = heap
            /\ points' = points
            /\ matches_won' = matches_won
            /\ matches_played' = matches_played ]_vars

\* the other team of a match
Loser(m, winner) == IF heap[m].team1 = winner THEN heap[m].team2 ELSE heap[m].team1

(* C10: after play_match(match, winner), match.score is 1 + 0.1 * |ranking
   difference| when the winner has the numerically higher (worse) average
   ranking, and 1.0 otherwise (scores times 20, rankings times 2). *)
C10_UpsetBonusScore ==
    (call.name = "play_match" /\ result = "ok" /\ WinnerIsParticipant(call)) =>
        LET m == call.match
            winner == call.team
            loser == Loser(m, winner)
        IN  heap[m].score =
                IF ranking2[winner] > ranking2[loser]
                THEN BaseScore + (ranking2[winner] - ranking2[loser])
                ELSE BaseScore

----------------------------------------------------------------------------
(* C11: play_match(match, winner) with winner one of the match's teams sets
   match.winner = winner, adds exactly 1 to winner.matches_won and exactly
   match.score to winner.points, and leaves matches_won and points of every
   other team (the loser, the teams not in the match) unchanged. *)
C11_WinnerCredited ==
    [][ (call'.name = "play_match" /\ WinnerIsParticipant(call')) =>
            LET m == call'.match
                w == call'.team
            IN  /\ heap'[m].winner = w
                /\ matches_won'[w] = matches_won[w] + 1
                /\ points'[w] = points[w] + heap'[m].score
                /\ \A t \in TeamIds \ {w} :
                       /\ matches_won'[t] = matches_won[t]
                       /\ points'[t] = points[t] ]_vars

\* team2 of a match between two different teams has just won it
C11_Witness ==
    /\ call.name = "play_match"
    /\ heap[call.match].team1 # heap[call.match].team2
    /\ call.team = heap[call.match].team2
    /\ heap[call.match].winner = call.team
    /\ matches_won[call.team] = 1
    /\ points[call.team] = BaseScore

(* C12: for every Match created by generate_schedule, one play_match call adds
   exactly 1 to matches_played of each of the match's two teams, whichever of
   them wins, and leaves matches_played of every other team unchanged. *)
C12_BothTeamsPlayedOnce ==
    [][ (call'.name = "play_match" /\ WinnerIsParticipant(call')) =>
            LET self == heap[call'.match] IN
            /\ matches_played'[self.team1] = matches_played[self.team1] + 1
            /\ matches_played'[self.team2] = matches_played[self.team2] + 1
            /\ \A t \in TeamIds \ {self.team1, self.team2} :
                   matches_played'[t] = matches_played[t] ]_vars

\* the last two play_match calls were on the same match
PlayedTwiceSameMatch ==
    /\ Len(history) >= 2
    /\ history[Len(history)].match = history[Len(history) - 1].match

\* the last two play_match calls had the same match and the same winner
PlayedTwice ==
    /\ PlayedTwiceSameMatch
    /\ history[Len(history)].team = history[Len(history) - 1].team

(* C13: play_match called twice on the same match with the same winner leaves
   matches_played of both teams and matches_won and points of the winner
   increased by twice what the first call added, and the first call added
   something. *)
C13_TwiceDoubles ==
    PlayedTwice =>
        LET before == history[Len(history) - 1]
            between == history[Len(history)]
            self == heap[between.match]
            w == between.team
        IN  /\ between.matches_won[w] > before.matches_won[w]
            /\ between.points[w] > before.points[w]
            /\ matches_won[w] - before.matches_won[w]
                   = 2 * (between.matches_won[w] - before.matches_won[w])
            /\ points[w] - before.points[w]
                   = 2 * (between.points[w] - before.points[w])
            /\ \A t \in {self.team1, self.team2} :
                   /\ between.matches_played[t] > before.matches_played[t]
                   /\ matches_played[t] - before.matches_played[t]
                          = 2 * (between.matches_played[t] - before.matches_played[t])

\* a match of two different teams played twice with team1 as the winner
C13_Witness ==
    /\ PlayedTwice
    /\ call.name = "play_match"
    /\ heap[call.match].team1 # heap[call.match].team2
    /\ call.team = heap[call.match].team1
    /\ matches_won[call.team] = 2
    /\ matches_played[heap[call.match].team2] = 2

----------------------------------------------------------------------------
\* the calls that enter a result
ResultCalls == {"play_match", "input_results"}

(* C14: in every reachable state (add_team, generate_schedule, play_match and
   the web application's dominant-win adjustment, in any order) a Match whose
   winner is unset has score 0, and winner and score become set together, in
   the step of the play_match call on that Match. *)
C14_UnplayedScoreZero ==
    [][ \A m \in 1 .. Len(heap') :
            /\ heap'[m].winner = NoTeam => heap'[m].score = InitialScore
            /\ (m <= Len(heap) /\ heap[m].winner = NoTeam /\ heap'[m].winner # NoTeam) =>
                   /\ heap'[m].score # InitialScore
                   /\ call'.name \in ResultCalls /\ call'.match = m
            /\ (m <= Len(heap) /\ heap[m].score = InitialScore
                               /\ heap'[m].score # InitialScore) =>
                   heap[m].winner = NoTeam /\ heap'[m].winner # NoTeam ]_vars

\* one match entered as a dominant win (score 1.5) next to an unplayed one
C14_Witness ==
    /\ call.name = "input_results"
    /\ heap[call.match].winner = call.team
    /\ heap[call.match].score = BaseScore + DominantBonus
    /\ \E m \in 1 .. Len(heap) : heap[m].winner = NoTeam /\ heap[m].score = InitialScore

(* C15: a result is write-once: once play_match has set a Match's winner, no
   later operation changes or resets that winner. *)
C15_WinnerWriteOnce ==
    [][ \A m \in 1 .. Len(heap) :
            heap[m].winner # NoTeam => heap'[m].winner = heap[m].winner ]_vars

(* C15 as amended: a winner, once set, is never reset to unset, and is changed
   only by a further play_match call on that same Match, which the engine
   accepts; every other operation (add_team, generate_schedule, play_match on
   another Match) leaves it as it is. *)
C15_WinnerChangedOnlyByReplay ==
    [][ \A m \in 1 .. Len(heap) :
            heap[m].winner # NoTeam =>
                /\ heap'[m].winner # NoTeam
                /\ heap'[m].winner # heap[m].winner =>
                       /\ call'.name \in ResultCalls
                       /\ call'.match = m
                       /\ heap'[m].winner = call'.team ]_vars

\* a played match has been played again, with the other team as the winner
C15_Witness ==
    /\ PlayedTwiceSameMatch
    /\ call.name \in ResultCalls
    /\ history[Len(history)].team # history[Len(history) - 1].team
    /\ heap[call.match].winner = call.team
    /\ \E m \in 1 .. Len(heap) : m # call.match /\ heap[m].winner = NoTeam

----------------------------------------------------------------------------
\* how often Match object m is in the flat list / in the schedule's slots
InFlatList(m) == Cardinality({ i \in 1 .. Len(matches) : matches[i] = m })
InSlots(m) ==
    Cardinality({ rk \in (1 .. Len(schedule)) \X (1 .. Len(heap)) :
                    /\ rk[2] <= Len(schedule[rk[1]].slot)
                    /\ schedule[rk[1]].slot[rk[2]] = m })

(* C16: in every reachable state (repeated generate_schedule calls, reloaded
   results) every Match in a schedule slot is exactly once in the flat list
   and every Match in the flat list is in exactly one schedule slot. *)
C16_ScheduleAndFlatListAgree ==
    \A m \in 1 .. Len(heap) :
        /\ InSlots(m) >= 1 => InFlatList(m) = 1
        /\ InFlatList(m) >= 1 => InSlots(m) = 1

----------------------------------------------------------------------------
(* C17: in every reachable state every win rate in the rows of get_standings
   lies in [0,1], and is 0 for a team with matches_played = 0. *)
C17_WinRateInUnitInterval ==
    \A f \in get_standings.frames : \A i \in 1 .. Len(f) :
        /\ 0 <= f[i].Win_Rate.num
        /\ f[i].Win_Rate.num <= f[i].Win_Rate.den
        /\ f[i].Matches_Played = 0 => f[i].Win_Rate.num = 0

\* frame f has exactly one row per roster team, with the team's current
\* counters, and the points do not increase down the rows
StandingsOf(f) ==
    /\ Len(f) = Len(teams)
    /\ \A i \in 1 .. Len(teams) :
         \E j \in 1 .. Len(f) :
            /\ f[j].Team = teams[i]
            /\ f[j].Points = points[teams[i]]
            /\ f[j].Matches_Played = matches_played[teams[i]]
            /\ f[j].Matches_Won = matches_won[teams[i]]
            /\ \A k \in 1 .. Len(f) : f[k].Team = teams[i] => k = j
    /\ \A j \in 1 .. (Len(f) - 1) : f[j].Points >= f[j + 1].Points

(* C18: in every reachable state get_standings returns, and what it returns
   has exactly one row per roster team with that team's current points,
   matches_played and matches_won, ordered by points, highest first. *)
C18_StandingsRows ==
    /\ get_standings.err = "ok"
    /\ \A f \in get_standings.frames : StandingsOf(f)

\* the same for the tournaments that have a team
C18_StandingsRowsOfNonEmptyRoster ==
    teams # <<>> =>
        /\ get_standings.err = "ok"
        /\ get_standings.frames # {}
        /\ \A f \in get_standings.frames : StandingsOf(f)

(* C19: whenever the roster has three teams get_prizes returns, and whenever
   it returns Champion, Runner-up and Third Place are the first, second and
   third team added, whatever the results and the standings are. *)
C19_PodiumIsRosterOrder ==
    LET returned == get_prizes
    IN  /\ Len(teams) >= 3 => returned.err = "ok"
        /\ returned.err = "ok" =>
             /\ returned.prizes.Champion = teams[1]
             /\ returned.prizes.Runner_up = teams[2]
             /\ returned.prizes.Third_Place = teams[3]

\* prizes are awarded while every frame of the standings has three other
\* teams than the first three added in its first three rows
C19_Witness ==
    /\ get_prizes.err = "ok"
    /\ plays > 0
    /\ \A f \in get_standings.frames :
         /\ f[1].Team # teams[1]
         /\ f[2].Team # teams[2]
         /\ f[3].Team # teams[3]
    /\ get_prizes.prizes.Champion = teams[1]

\* the place of a team in the roster
RosterIndex(team) == CHOOSE i \in 1 .. Len(teams) : teams[i] = team

(* C20: whenever get_prizes returns, no team of the roster has a higher win
   rate than the Best Underdog, and every team earlier in the roster has a
   lower one. *)
C20_BestUnderdogFirstMaximal ==
    LET returned == get_prizes
    IN
    returned.err = "ok" =>
        LET underdog == returned.prizes.Best_Underdog
        IN  /\ \E i \in 1 .. Len(teams) : teams[i] = underdog
            /\ \A i \in 1 .. Len(teams) :
                 ~ RateLess(WinRate(underdog), WinRate(teams[i]))
            /\ \A i \in 1 .. (RosterIndex(underdog) - 1) :
                 RateLess(WinRate(teams[i]), WinRate(underdog))

\* the Best Underdog has won, is not the first team added, and a later team
\* has the same win rate
C20_Witness ==
    /\ get_prizes.err = "ok"
    /\ LET underdog == get_prizes.prizes.Best_Underdog
       IN  /\ underdog # teams[1]
           /\ WinRate(underdog).num > 0
           /\ \E i \in (RosterIndex(underdog) + 1) .. Len(teams) :
                /\ ~ RateLess(WinRate(teams[i]), WinRate(underdog))
                /\ ~ RateLess(WinRate(underdog), WinRate(teams[i]))

----------------------------------------------------------------------------
\* the slots the last generate_schedule call produced: one per round, an
\* hour apart from the start time of the call
ProducedSlots ==
    { r \in 1 .. Len(schedule) :
        /\ schedule[r].time >= call.time
        /\ schedule[r].time < call.time + Len(Rounds) * SlotHours }

(* C21: after a successful generate_schedule the k-th match (k from 0) of
   every slot the call produced has court k: the slot has min(num_courts, N/2)
   matches with the courts 0 .. min(num_courts, N/2) - 1 in order, and every
   Match has 0 <= court < num_courts. *)
C21_CourtIsPlaceInSlot ==
    Scheduled =>
        /\ Cardinality(ProducedSlots) = Len(Rounds)
        /\ \A r \in ProducedSlots :
             /\ Len(schedule[r].slot) = Min(num_courts, RosterSize \div 2)
             /\ \A k \in 1 .. Len(schedule[r].slot) :
                    heap[schedule[r].slot[k]].court = k - 1
        /\ \A m \in 1 .. Len(heap) :
               heap[m].court >= 0 /\ heap[m].court < num_courts

\* six teams on two courts: every slot holds the courts 0 and 1
C21_Witness ==
    /\ Scheduled
    /\ RosterSize = 6 /\ num_courts = 2
    /\ Len(schedule) = 5
    /\ \A r \in 1 .. Len(schedule) :
         /\ Len(schedule[r].slot) = 2
         /\ heap[schedule[r].slot[2]].court = 1

\* the slot keys are start, start + 1h, ..., start + (N-2)h in this order,
\* and the two times of the tournament are start and start + (N-1)h
SlotsFrom(start) ==
    /\ start_time = start
    /\ Len(schedule) = RosterSize - 1
    /\ \A r \in 1 .. Len(schedule) : schedule[r].time = start + (r - 1) * SlotHours
    /\ end_time = start + (RosterSize - 1) * SlotHours

(* C22: after any generate_schedule(start) that succeeds on an even roster of
   N >= 2 teams, start_time is start, the slot keys are exactly start,
   start + 1h, ..., start + (N-2)h in round order, and end_time is
   start + (N-1)h. *)
C22_SlotTimes ==
    (Scheduled /\ EvenRoster) => SlotsFrom(call.time)

\* the same for the first generate_schedule call on a tournament
C22_SlotTimesOfFirstCall ==
    (Scheduled /\ EvenRoster /\ generations = 1) => SlotsFrom(call.time)

----------------------------------------------------------------------------
\* both threads have returned from play_match
BothDone == \A t \in Threads : threads[t].pc = "done"

\* what the calls of the threads add when they run one after the other
SerialPlayed(team) ==
    Cardinality({ t \in Threads : heap[threads[t].match].team1 = team })
    + Cardinality({ t \in Threads : heap[threads[t].match].team2 = team })
SerialWon(team) == Cardinality({ t \in Threads : threads[t].team = team })

(* C23: when two play_match calls made without synchronisation have both
   returned, no team has more matches_played, matches_won or points than the
   two calls give one after the other (all counters were 0 before), and when
   the calls did run one after the other, in either order, every team has
   exactly those.  The witness is the lost update. *)
C23_SerialCountersOrLess ==
    BothDone =>
        /\ \A team \in 1 .. RosterSize :
             /\ matches_played[team] <= SerialPlayed(team)
             /\ matches_won[team] <= SerialWon(team)
             /\ points[team] <= BaseScore * SerialWon(team)
        /\ ~ overlapped =>
             \A team \in 1 .. RosterSize :
                /\ matches_played[team] = SerialPlayed(team)
                /\ matches_won[team] = SerialWon(team)
                /\ points[team] = BaseScore * SerialWon(team)

\* two calls on different matches that share a team have returned, and the
\* team has fewer matches_played than the two calls give one after the other
C23_Witness ==
    /\ BothDone
    /\ overlapped
    /\ threads["first"].match # threads["second"].match
    /\ \E team \in 1 .. RosterSize :
         /\ team \in {heap[threads["first"].match].team1, heap[threads["first"].match].team2}
         /\ team \in {heap[threads["second"].match].team1, heap[threads["second"].match].team2}
         /\ SerialPlayed(team) = 2
         /\ matches_played[team] = 1

----------------------------------------------------------------------------
(* C24: on every played Match whose winner is one of its teams,
   calculate_score gives 1 + 0.1 * (winner ranking - loser ranking) when the
   winner's ranking is numerically higher than the loser's, and 1.0 otherwise
   (scores times 20, rankings times 2). *)
C24_ScoreRewardsUpset ==
    \A m \in 1 .. Len(heap) :
        (heap[m].winner # NoTeam /\ heap[m].winner \in {heap[m].team1, heap[m].team2}) =>
            LET winner == heap[m].winner
                loser == Loser(m, winner)
            IN  calculate_score(heap[m]) =
                    IF ranking2[winner] > ranking2[loser]
                    THEN BaseScore + (ranking2[winner] - ranking2[loser])
                    ELSE BaseScore

----------------------------------------------------------------------------
(* C25: after a successful generate_schedule no pairing the generator
   returned and no Match created has the same team as team1 and team2. *)
C25_NoSelfPairing ==
    Scheduled =>
        /\ \A i \in 1 .. Len(matches_to_schedule) :
               matches_to_schedule[i][1] # matches_to_schedule[i][2]
        /\ \A m \in 1 .. Len(heap) : heap[m].team1 # heap[m].team2

----------------------------------------------------------------------------
\* the teams of Match object m
TeamSet(m) == {heap[m].team1, heap[m].team2}

(* C26: in every reachable state, two different matches of one time slot of
   the schedule have no team in common. *)
C26_NoTeamOnTwoCourts ==
    \A r \in 1 .. Len(schedule) :
        \A k1, k2 \in 1 .. Len(schedule[r].slot) :
            k1 # k2 =>
                TeamSet(schedule[r].slot[k1]) \cap TeamSet(schedule[r].slot[k2]) = {}

\* six teams on three courts: every slot has three matches
C26_Witness ==
    /\ Scheduled
    /\ RosterSize = 6 /\ num_courts = 3
    /\ \A r \in 1 .. Len(schedule) : Len(schedule[r].slot) = 3
    /\ \E r \in 1 .. Len(schedule) :
         Cardinality(UNION { TeamSet(schedule[r].slot[k]) : k \in 1 .. 3 }) = 5

----------------------------------------------------------------------------
\* every Match object has been played exactly once
EveryMatchPlayedOnce ==
    /\ heap # <<>>
    /\ \A m \in 1 .. Len(heap) :
         Cardinality({ i \in 1 .. Len(history) : history[i].match = m }) = 1

(* C27: with num_courts >= N/2, after the first generate_schedule every
   roster team is in exactly one match of every time slot, and once every
   match has been played exactly once every team has matches_played = N-1. *)
C27_EveryTeamInEverySlot ==
    (EvenRoster /\ schedule # <<>> /\ generations = 1 /\ 2 * num_courts >= RosterSize) =>
        /\ \A r \in 1 .. Len(schedule) : \A i \in 1 .. RosterSize :
             Cardinality({ k \in 1 .. Len(schedule[r].slot) :
                             teams[i] \in TeamSet(schedule[r].slot[k]) }) = 1
        /\ EveryMatchPlayedOnce =>
             \A i \in 1 .. RosterSize : matches_played[teams[i]] = RosterSize - 1

----------------------------------------------------------------------------
\* the sum of the scores of the first n Match objects that team has won
RECURSIVE ScoresWon(_, _)
ScoresWon(team, n) ==
    IF n = 0 THEN 0
    ELSE (IF heap[n].winner = team THEN heap[n].score ELSE 0) + ScoresWon(team, n - 1)

\* no Match object has had two result entries
EachMatchPlayedAtMostOnce ==
    \A m \in 1 .. Len(heap) :
        Cardinality({ i \in 1 .. Len(history) : history[i].match = m }) <= 1

(* C28: while no match has been played twice, every team's points are the
   sum of the scores of the matches it has won, the dominant-win adjustment
   of the web application included. *)
C28_PointsAreScoresWon ==
    EachMatchPlayedAtMostOnce =>
        \A team \in TeamIds : points[team] = ScoresWon(team, Len(heap))

\* the same where the results are entered with play_match alone
C28_PointsAreScoresWonByPlayMatch ==
    (EachMatchPlayedAtMostOnce /\ \A m \in 1 .. Len(heap) : heap[m].score <= BaseScore) =>
        \A team \in TeamIds : points[team] = ScoresWon(team, Len(heap))

----------------------------------------------------------------------------
(* C29: for every roster of even size N >= 2 get_prizes returns, with a team
   in each of its five categories. *)
C29_PrizesForEvenRoster ==
    EvenRoster =>
        /\ get_prizes.err = "ok"
        /\ \A team \in { get_prizes.prizes.Champion, get_prizes.prizes.Runner_up,
                         get_prizes.prizes.Third_Place, get_prizes.prizes.Most_Improved,
                         get_prizes.prizes.Best_Underdog } :
               \E i \in 1 .. RosterSize : teams[i] = team

====
